---- MODULE Spec2Model ----
(***************************************************************************)
(* The HTTP/1 connection state machine of src/src/http/conn.rs             *)
(* (http::Conn: read, write, flush, poll_read, poll_write over a pair of   *)
(* Reading / Writing states) and the server wrapper of                     *)
(* src/src/server/conn.rs (server::Conn).                                  *)
(*                                                                         *)
(* Bytes are symbolic.  One symbol stands for one unit of the wire:        *)
(*   "NL"              a line terminator (CRLF); alone on a line it ends   *)
(*                     a head, before a request line it is an empty line   *)
(*   "G10" "G11" "G20" a request line "GET / HTTP/x.y" with its CRLF       *)
(*   "CL1" "CL2"       a header line "Content-Length: n"                   *)
(*   "TEX"             a header line "Transfer-Encoding: gzip"             *)
(*   "CC"              a header line "Connection: close"                   *)
(*   "a"               a data byte (malformed where a head is expected)    *)
(* Outgoing, a serialized response head is one unit, a body byte another;  *)
(* "CL0" is the header line "Content-Length: 0" of a response.             *)
(* IoBuf, Buffer, the h1 parser, the Decoder and ServerTransaction are     *)
(* code of the repository that the source files at hand only call; they    *)
(* are modelled from the specification (sections 4.1 - 4.3).               *)
(***************************************************************************)
EXTENDS Integers, Sequences, FiniteSets, TLC

\* The read buffer's ceiling (max_head_bytes, scaled down).
MaxBuf == 4
\* The number of bytes the outgoing direction may carry in total.
MaxOut == 2
\* The length of the byte streams whose piecewise delivery is compared.
MaxStream == 4
\* The size of the vector read_body decodes into (1024 * 4).
ChunkCap == 4096

VARIABLES
    layer,      \* "http": http::Conn is driven directly; "server": through
                \* server::Conn; "pipeline": http::Conn under keep-alive traffic;
                \* "split": http::Conn fed one byte stream in pieces
    conn,       \* the http::Conn: reading, writing, read_buf, write_buf
    peer,       \* where the remote client is in the stream it sends
    sent,       \* the bytes the transport has accepted, in order
    ret,        \* the call made in the last step and what it returned
    crashed,    \* the task panicked (unimplemented!())
    hist,       \* history of the frames read: what the claims speak about
    run         \* a byte stream, a split of it, and what read() made of both

vars == <<layer, conn, peer, sent, ret, crashed, hist, run>>

Min(a, b) == IF a < b THEN a ELSE b

IsPrefix(s, t) == Len(s) <= Len(t) /\ SubSeq(t, 1, Len(s)) = s

Drop(s, n) == SubSeq(s, n + 1, Len(s))

Take(s, n) == SubSeq(s, 1, n)

----------------------------------------------------------------------------
(* The wire alphabet.                                                      *)

ReqLines == {"G10", "G11", "G20"}

HeaderLines == {"CL1", "CL2", "TEX"}

\* Header lines that say nothing of the framing.
OptionLines == {"CC"}

BodyBytes == {"a", "NL"}

VersionOf(b) == CASE b = "G10" -> "Http10" [] b = "G11" -> "Http11" [] OTHER -> "Http20"

----------------------------------------------------------------------------
(* The remote client.  It sends pipelined requests, each a request line,   *)
(* at most one header line (none after an HTTP/1.0 or HTTP/2.0 request     *)
(* line), the empty line and as many body bytes as its Content-Length      *)
(* says; it may put one empty line before a request, send one malformed    *)
(* byte and then nothing, and hang up at any point.  A byte is chosen when *)
(* the transport hands it over.                                            *)

PeerStart == [at |-> "start", n |-> 0]

PeerEof == [at |-> "eof", n |-> 0]

\* The client of the keep-alive traffic: it sends well-formed HTTP/1.1
\* requests without a body, one after the other, each with or without
\* Connection: close.
PeerPipeStart == [at |-> "pstart", n |-> 0]

PeerBytes(p) ==
    CASE p.at = "start" -> {"NL", "a"} \cup ReqLines
      [] p.at = "lead"  -> {"a"} \cup ReqLines
      [] p.at = "hdr0"  -> {"NL", "a"} \cup HeaderLines
      [] p.at = "hdr1"  -> {"NL", "a"}
      [] p.at = "body"  -> BodyBytes
      [] p.at = "pstart" -> {"G11"}
      [] p.at = "phdr"  -> {"NL"} \cup OptionLines
      [] p.at = "pend"  -> {"NL"}
      [] OTHER          -> {}

PeerStep(p, b) ==
    CASE p.at \in {"start", "lead"} ->
            IF b = "NL" THEN [at |-> "lead", n |-> 0]
            ELSE IF b = "G11" THEN [at |-> "hdr0", n |-> 0]
            ELSE IF b \in ReqLines THEN [at |-> "hdr1", n |-> 0]
            ELSE [at |-> "junk", n |-> 0]
      [] p.at = "hdr0" ->
            IF b = "NL" THEN PeerStart
            ELSE IF b = "CL1" THEN [at |-> "hdr1", n |-> 1]
            ELSE IF b = "CL2" THEN [at |-> "hdr1", n |-> 2]
            ELSE IF b = "TEX" THEN [at |-> "hdr1", n |-> 0]
            ELSE [at |-> "junk", n |-> 0]
      [] p.at = "hdr1" ->
            IF b = "NL"
            THEN (IF p.n = 0 THEN PeerStart ELSE [at |-> "body", n |-> p.n])
            ELSE [at |-> "junk", n |-> 0]
      [] p.at = "body" ->
            IF p.n = 1 THEN PeerStart ELSE [at |-> "body", n |-> p.n - 1]
      [] p.at = "pstart" -> [at |-> "phdr", n |-> 0]
      [] p.at = "phdr" ->
            IF b = "NL" THEN PeerPipeStart ELSE [at |-> "pend", n |-> 0]
      [] p.at = "pend" -> PeerPipeStart
      [] OTHER -> p

\* The non-empty runs of at most n bytes the client may send from p, each
\* with the client's position after it.
RECURSIVE Chunks(_, _)
Chunks(p, n) ==
    IF n = 0 THEN {}
    ELSE UNION { {[bytes |-> <<b>>, peer |-> PeerStep(p, b)]} \cup
                 { [bytes |-> <<b>> \o c.bytes, peer |-> c.peer] :
                      c \in Chunks(PeerStep(p, b), n - 1) } :
                 b \in PeerBytes(p) }

\* What one read of at most n bytes from the transport can give.
TransportRead(p, n) ==
    IF n = 0 THEN {[k |-> "none", bytes |-> <<>>, peer |-> p]}
    ELSE IF p.at = "eof"
    THEN {[k |-> "eof", bytes |-> <<>>, peer |-> p],
          [k |-> "ioerr", bytes |-> <<>>, peer |-> p]}
    ELSE {[k |-> "data", bytes |-> c.bytes, peer |-> c.peer] : c \in Chunks(p, n)}
         \cup {[k |-> "wouldblock", bytes |-> <<>>, peer |-> p],
               [k |-> "ioerr", bytes |-> <<>>, peer |-> p]}

----------------------------------------------------------------------------
(* Buffer and head parser (specification 4.1, 4.2).                        *)

RECURSIVE LeadingLines(_)
LeadingLines(s) ==
    IF s # <<>> /\ Head(s) = "NL" THEN 1 + LeadingLines(Tail(s)) ELSE 0

\* Buffer::consume_leading_lines: skip the run of line terminators in front.
consume_leading_lines(buf) == Drop(buf, LeadingLines(buf))

NoHead == [version |-> "none", headers |-> <<>>]

\* The header lines after a request line: a head ends with the empty line.
RECURSIVE ParseHeaders(_, _, _, _)
ParseHeaders(s, version, headers, len) ==
    IF s = <<>> THEN [k |-> "none", head |-> NoHead, len |-> 0]
    ELSE IF Head(s) = "NL"
    THEN [k |-> "some", head |-> [version |-> version, headers |-> headers],
          len |-> len + 1]
    ELSE IF Head(s) \in HeaderLines \cup OptionLines
    THEN ParseHeaders(Tail(s), version, Append(headers, Head(s)), len + 1)
    ELSE [k |-> "err", head |-> NoHead, len |-> 0]

\* h1::parse for a server: Some(head, consumed), None for a proper prefix of
\* a head, an error at a malformed byte.  Empty lines before the request
\* line are skipped.
h1_parse(buf) ==
    LET i == LeadingLines(buf)
        rest == Drop(buf, i)
    IN  IF rest = <<>> THEN [k |-> "none", head |-> NoHead, len |-> 0]
        ELSE IF Head(rest) \notin ReqLines
        THEN [k |-> "err", head |-> NoHead, len |-> 0]
        ELSE ParseHeaders(Tail(rest), VersionOf(Head(rest)), <<>>, i + 1)

\* IoBuf::parse: one read of the transport into the read buffer, then the
\* head parser over the buffer.  t is what the transport gave.
io_parse(read_buf, t) ==
    IF t.k \in {"eof", "none"}
    THEN [k |-> "err", err |-> "Eof", head |-> NoHead, buf |-> read_buf]
    ELSE IF t.k = "ioerr"
    THEN [k |-> "err", err |-> "Io", head |-> NoHead, buf |-> read_buf]
    ELSE LET b == read_buf \o t.bytes
             p == h1_parse(b)
         IN  CASE p.k = "some" ->
                    [k |-> "some", err |-> "none", head |-> p.head,
                     buf |-> Drop(b, p.len)]
               [] p.k = "none" ->
                    IF Len(b) >= MaxBuf
                    THEN [k |-> "err", err |-> "TooLarge", head |-> NoHead, buf |-> b]
                    ELSE [k |-> "none", err |-> "none", head |-> NoHead, buf |-> b]
               [] OTHER ->
                    [k |-> "err", err |-> "Parse", head |-> NoHead, buf |-> b]

----------------------------------------------------------------------------
(* Body decoder (specification 4.3).                                       *)

ContentLengths(head) ==
    {n \in {1, 2} : \E i \in 1..Len(head.headers) :
        head.headers[i] = (IF n = 1 THEN "CL1" ELSE "CL2")}

Length(n) == [kind |-> "Length", remaining |-> n]

\* ServerTransaction::decoder: the framing of an incoming request.
decoder(head) ==
    IF \E i \in 1..Len(head.headers) : head.headers[i] = "TEX"
    THEN [ok |-> FALSE, dec |-> Length(0)]
    ELSE IF Cardinality(ContentLengths(head)) > 1
    THEN [ok |-> FALSE, dec |-> Length(0)]
    ELSE IF ContentLengths(head) = {}
    THEN [ok |-> TRUE, dec |-> Length(0)]
    ELSE [ok |-> TRUE, dec |-> Length(CHOOSE n \in ContentLengths(head) : TRUE)]

is_eof(dec) == dec.remaining = 0

\* Decoder::decode into a vector of cap bytes, reading through IoBuf: the
\* read buffer first, the transport when the buffer is empty.
decode(dec, read_buf, cap, t) ==
    IF dec.remaining = 0
    THEN [n |-> 0, bytes |-> <<>>, dec |-> dec, buf |-> read_buf, err |-> "none"]
    ELSE LET want == Min(dec.remaining, cap) IN
         IF read_buf # <<>>
         THEN LET k == Min(want, Len(read_buf)) IN
              [n |-> k, bytes |-> Take(read_buf, k),
               dec |-> Length(dec.remaining - k),
               buf |-> Drop(read_buf, k), err |-> "none"]
         ELSE CASE t.k = "data" ->
                    [n |-> Len(t.bytes), bytes |-> t.bytes,
                     dec |-> Length(dec.remaining - Len(t.bytes)),
                     buf |-> read_buf, err |-> "none"]
                [] t.k = "wouldblock" ->
                    [n |-> 0, bytes |-> <<>>, dec |-> dec, buf |-> read_buf,
                     err |-> "WouldBlock"]
                [] t.k = "ioerr" ->
                    [n |-> 0, bytes |-> <<>>, dec |-> dec, buf |-> read_buf,
                     err |-> "Io"]
                [] OTHER ->
                    [n |-> 0, bytes |-> <<>>, dec |-> dec, buf |-> read_buf,
                     err |-> "EarlyEof"]

----------------------------------------------------------------------------
(* http::Conn (src/src/http/conn.rs).                                      *)

ReadingInit == [tag |-> "Init"]

ReadingBody(dec) == [tag |-> "Body", decoder |-> dec]

ReadingKeepAlive == [tag |-> "KeepAlive"]

ReadingClosed == [tag |-> "Closed"]

WritingInit == [tag |-> "Init"]

\* Writing::Body(encoder): no state the connection reaches holds it.
WritingBody == [tag |-> "Body"]

WritingClosed == [tag |-> "Closed"]

\* Conn::new
new == [state |-> [reading |-> ReadingInit, writing |-> WritingInit],
        io |-> [read_buf |-> <<>>, write_buf |-> <<>>]]

\* State::close gone wrong: only the writing side is closed.
close_writing(state) == [state EXCEPT !.writing = WritingClosed]

\* State::close gone wrong: only the reading side is closed.
close_reading(state) == [state EXCEPT !.reading = ReadingClosed]

\* State::close
close(state) == [reading |-> ReadingClosed, writing |-> WritingClosed]

\* State::is_closed
is_closed(state) == state.reading.tag = "Closed" /\ state.writing.tag = "Closed"

\* Conn::can_read_head
can_read_head(c) == c.state.reading.tag = "Init"

\* What a call returned.  res is the Poll (NotReady, Err, Ready; a Ready
\* frame is named by its kind: Message, BodySome, BodyNone, Error, Done) or
\* Panic; err is the error met; frame and cl describe a written frame; was
\* is the Reading (of a read) or the Writing (of a write) the call found;
\* inner is what http::Conn::read returned to server::Conn::read.
Returned(op, res) ==
    [op |-> op, res |-> res, body |-> FALSE, head |-> NoHead, chunk |-> <<>>,
     err |-> "none", frame |-> "none", cl |-> 0, was |-> "none",
     inner |-> "none"]

NoCall == Returned("none", "none")

\* read_head gone wrong: the buffer is tested before the empty lines are
\* skipped.
read_head_err_raw(c, p) ==
    LET c1 == [c EXCEPT !.state = close(c.state),
                        !.io.read_buf = consume_leading_lines(p.buf)]
    IN  IF p.buf # <<>>
        THEN [conn |-> c1,
              ret |-> [Returned("read", "Error") EXCEPT !.err = p.err]]
        ELSE [conn |-> c1,
              ret |-> [Returned("read", "Done") EXCEPT !.err = p.err]]

\* Conn::read_head, when the parser fails
read_head_err(c, p) ==
    LET b == consume_leading_lines(p.buf)
        c1 == [c EXCEPT !.state = close(c.state), !.io.read_buf = b]
    IN  IF b # <<>>
        THEN [conn |-> c1,
              ret |-> [Returned("read", "Error") EXCEPT !.err = p.err]]
        ELSE [conn |-> c1,
              ret |-> [Returned("read", "Done") EXCEPT !.err = p.err]]

\* read_head gone wrong: the decoder is installed whether or not it is at
\* its end.
read_head_some_body(c, p) ==
    LET c1 == [c EXCEPT !.io.read_buf = p.buf] IN
    IF p.head.version \in {"Http10", "Http11"}
    THEN LET d == decoder(p.head) IN
         IF ~d.ok
         THEN [conn |-> [c1 EXCEPT !.state = close(c.state)],
               ret |-> [Returned("read", "Error") EXCEPT
                           !.err = "Framing", !.head = p.head]]
         ELSE [conn |-> [c1 EXCEPT !.state =
                          [reading |-> ReadingBody(d.dec), writing |-> WritingInit]],
               ret |-> [Returned("read", "Message") EXCEPT
                           !.head = p.head, !.body = ~is_eof(d.dec)]]
    ELSE [conn |-> [c1 EXCEPT !.state = close(c.state)],
          ret |-> [Returned("read", "Error") EXCEPT
                      !.err = "Version", !.head = p.head]]

\* Conn::read_head, when the parser gives a head
read_head_some(c, p) ==
    LET c1 == [c EXCEPT !.io.read_buf = p.buf] IN
    IF p.head.version \in {"Http10", "Http11"}
    THEN LET d == decoder(p.head) IN
         IF ~d.ok
         THEN [conn |-> [c1 EXCEPT !.state = close(c.state)],
               ret |-> [Returned("read", "Error") EXCEPT
                           !.err = "Framing", !.head = p.head]]
         ELSE LET body == ~is_eof(d.dec)
                  reading == IF is_eof(d.dec) THEN ReadingKeepAlive
                             ELSE ReadingBody(d.dec)
              IN  [conn |-> [c1 EXCEPT !.state =
                              [reading |-> reading, writing |-> WritingInit]],
                   ret |-> [Returned("read", "Message") EXCEPT
                               !.head = p.head, !.body = body]]
    ELSE [conn |-> [c1 EXCEPT !.state = close(c.state)],
          ret |-> [Returned("read", "Error") EXCEPT
                      !.err = "Version", !.head = p.head]]

\* read_head gone wrong: waiting for the rest of a head leaves Reading::Init.
read_head_wait(c, t) ==
    LET p == io_parse(c.io.read_buf, t) IN
    CASE p.k = "none" ->
            [conn |-> [c EXCEPT !.io.read_buf = p.buf,
                                !.state.reading = ReadingKeepAlive],
             ret |-> Returned("read", "NotReady")]
      [] p.k = "err" -> read_head_err(c, p)
      [] OTHER -> read_head_some(c, p)

\* Conn::read_head
read_head(c, t) ==
    LET p == io_parse(c.io.read_buf, t) IN
    CASE p.k = "none" ->
            [conn |-> [c EXCEPT !.io.read_buf = p.buf],
             ret |-> Returned("read", "NotReady")]
      [] p.k = "err" -> read_head_err(c, p)
      [] OTHER -> read_head_some(c, p)

\* read_body gone wrong: a decode of no bytes is reported as a chunk.
read_body_some(c, t) ==
    IF c.state.reading.tag = "Body"
    THEN LET d == decode(c.state.reading.decoder, c.io.read_buf, ChunkCap, t) IN
         IF d.err # "none"
         THEN [conn |-> c, ret |-> [Returned("read", "Err") EXCEPT !.err = d.err]]
         ELSE [conn |-> [c EXCEPT !.state.reading = ReadingBody(d.dec),
                                  !.io.read_buf = d.buf],
               ret |-> [Returned("read", "BodySome") EXCEPT !.chunk = d.bytes]]
    ELSE [conn |-> c, ret |-> Returned("read", "Panic")]

\* Conn::read_body
read_body(c, t) ==
    IF c.state.reading.tag = "Body"
    THEN LET d == decode(c.state.reading.decoder, c.io.read_buf, ChunkCap, t) IN
         IF d.err # "none"
         THEN [conn |-> c, ret |-> [Returned("read", "Err") EXCEPT !.err = d.err]]
         ELSE LET c1 == [c EXCEPT !.state.reading = ReadingBody(d.dec),
                                  !.io.read_buf = d.buf]
              IN  IF d.n > 0
                  THEN [conn |-> c1,
                        ret |-> [Returned("read", "BodySome") EXCEPT !.chunk = d.bytes]]
                  ELSE [conn |-> c1, ret |-> Returned("read", "BodyNone")]
    ELSE [conn |-> c, ret |-> Returned("read", "Panic")]

\* Conn::read
read(c, t) ==
    IF is_closed(c.state)
    THEN [conn |-> c, ret |-> Returned("read", "Done")]
    ELSE IF can_read_head(c) THEN read_head(c, t) ELSE read_body(c, t)

\* How many bytes Conn::read asks of the transport (0: it does not read it).
ReadWant(c) ==
    IF is_closed(c.state) THEN 0
    ELSE IF can_read_head(c) THEN MaxBuf - Len(c.io.read_buf)
    ELSE IF c.state.reading.tag = "Body"
            /\ c.io.read_buf = <<>>
    THEN Min(c.state.reading.decoder.remaining, ChunkCap)
    ELSE 0

\* Conn::poll_read; ready is the transport's poll_read
poll_read(c, ready) ==
    IF c.state.reading.tag = "Closed" THEN "Ready"
    ELSE IF ready THEN "Ready" ELSE "NotReady"

\* Conn::poll_write; ready is the transport's poll_write, which is not asked
poll_write(c, ready) == "Ready"

\* ServerTransaction::encode: the bytes of the head (the status line, the
\* header lines, the empty line), kept together as one unit of the wire.
encode(head) == <<[status |-> "200", headers |-> head.headers]>>

\* The frames a caller may write.
OutHeads == {[version |-> "Http11", headers |-> <<"CL1">>]}

Frames ==
    {[kind |-> "Message", head |-> h, body |-> b, chunk |-> <<>>] :
        h \in OutHeads, b \in BOOLEAN}
    \cup {[kind |-> "BodySome", head |-> NoHead, body |-> FALSE, chunk |-> <<"a">>],
          [kind |-> "BodyNone", head |-> NoHead, body |-> FALSE, chunk |-> <<>>],
          [kind |-> "Error", head |-> NoHead, body |-> FALSE, chunk |-> <<>>],
          [kind |-> "Done", head |-> NoHead, body |-> FALSE, chunk |-> <<>>]}

\* The body length a response head announces.
OutLength(head) ==
    IF ContentLengths(head) = {} THEN 0 ELSE CHOOSE n \in ContentLengths(head) : TRUE

Wrote(frame, res) ==
    [Returned("write", res) EXCEPT !.frame = frame.kind,
                                   !.head = frame.head,
                                   !.cl = OutLength(frame.head)]

\* The frames written under keep-alive traffic: those of Frames, and the
\* head of a response with no body.
PipeFrames ==
    Frames \cup {[kind |-> "Message",
                  head |-> [version |-> "Http11", headers |-> <<"CL0">>],
                  body |-> FALSE, chunk |-> <<>>]}

\* write gone wrong: a frame that may not be written in Writing::Init is
\* refused and the connection is left open.
write_init_open(c, frame) ==
    CASE frame.kind = "Message" ->
            [conn |-> [c EXCEPT
                !.io.write_buf = c.io.write_buf \o encode(frame.head),
                !.state = [writing |-> WritingInit, reading |-> ReadingInit]],
             ret |-> Wrote(frame, "Ready")]
      [] frame.kind \in {"Error", "Done"} ->
            [conn |-> [c EXCEPT !.state = close(c.state)],
             ret |-> Wrote(frame, "Ready")]
      [] OTHER ->
            [conn |-> c,
             ret |-> [Wrote(frame, "Err") EXCEPT !.err = "InvalidInput"]]

\* write gone wrong: a head is put in front of the bytes still buffered.
write_init_front(c, frame) ==
    CASE frame.kind = "Message" ->
            [conn |-> [c EXCEPT
                !.io.write_buf = encode(frame.head) \o c.io.write_buf,
                !.state = [writing |-> WritingInit, reading |-> ReadingInit]],
             ret |-> Wrote(frame, "Ready")]
      [] frame.kind \in {"Error", "Done"} ->
            [conn |-> [c EXCEPT !.state = close(c.state)],
             ret |-> Wrote(frame, "Ready")]
      [] OTHER ->
            [conn |-> [c EXCEPT !.state = close(c.state)],
             ret |-> [Wrote(frame, "Err") EXCEPT !.err = "InvalidInput"]]

\* write gone wrong: the head of a response with a body installs an encoder.
write_init_body(c, frame) ==
    CASE frame.kind = "Message" ->
            [conn |-> [c EXCEPT
                !.io.write_buf = c.io.write_buf \o encode(frame.head),
                !.state = [writing |-> IF frame.body THEN WritingBody ELSE WritingInit,
                           reading |-> ReadingInit]],
             ret |-> Wrote(frame, "Ready")]
      [] frame.kind \in {"Error", "Done"} ->
            [conn |-> [c EXCEPT !.state = close(c.state)],
             ret |-> Wrote(frame, "Ready")]
      [] OTHER ->
            [conn |-> [c EXCEPT !.state = close(c.state)],
             ret |-> [Wrote(frame, "Err") EXCEPT !.err = "InvalidInput"]]

\* Conn::write in Writing::Init
write_init(c, frame) ==
    CASE frame.kind = "Message" ->
            [conn |-> [c EXCEPT
                !.io.write_buf = c.io.write_buf \o encode(frame.head),
                !.state = [writing |-> WritingInit, reading |-> ReadingInit]],
             ret |-> Wrote(frame, "Ready")]
      [] frame.kind \in {"Error", "Done"} ->
            [conn |-> [c EXCEPT !.state = close(c.state)],
             ret |-> Wrote(frame, "Ready")]
      [] OTHER ->
            [conn |-> [c EXCEPT !.state = close(c.state)],
             ret |-> [Wrote(frame, "Err") EXCEPT !.err = "InvalidInput"]]

\* Conn::write in Writing::Body
write_body(c, frame) ==
    CASE frame.kind = "BodySome" ->
            [conn |-> [c EXCEPT !.io.write_buf = c.io.write_buf \o frame.chunk],
             ret |-> Wrote(frame, "Ready")]
      [] frame.kind = "BodyNone" ->
            [conn |-> c, ret |-> Wrote(frame, "Ready")]
      [] frame.kind = "Message" ->
            [conn |-> c,
             ret |-> [Wrote(frame, "Err") EXCEPT !.err = "InvalidInput"]]
      [] OTHER ->
            [conn |-> [c EXCEPT !.state =
                [reading |-> ReadingClosed, writing |-> WritingClosed]],
             ret |-> Wrote(frame, "Ready")]

\* write gone wrong: a closed connection takes a head.
write_closed_head(c, frame) ==
    IF frame.kind = "Message"
    THEN [conn |-> [c EXCEPT
             !.io.write_buf = c.io.write_buf \o encode(frame.head)],
          ret |-> Wrote(frame, "Ready")]
    ELSE [conn |-> c, ret |-> [Wrote(frame, "Err") EXCEPT !.err = "InvalidInput"]]

\* Conn::write in Writing::KeepAlive and Writing::Closed
write_closed(c, frame) ==
    [conn |-> c, ret |-> [Wrote(frame, "Err") EXCEPT !.err = "InvalidInput"]]

\* Conn::write
write(c, frame) ==
    CASE c.state.writing.tag = "Init" -> write_init(c, frame)
      [] c.state.writing.tag = "Body" -> write_body(c, frame)
      [] OTHER -> write_closed(c, frame)

\* What the transport does with a flush of n buffered bytes: it takes the
\* first k of them, and all of them when it reports success.
TransportWrite(n) ==
    {[k |-> "ok", n |-> n]}
    \cup {[k |-> e, n |-> i] : e \in {"wouldblock", "ioerr"}, i \in 0..n}

\* Conn::flush, with IoBuf::flush draining the write buffer
flush(c, w) ==
    LET c1 == [c EXCEPT !.io.write_buf = Drop(c.io.write_buf, w.n)] IN
    CASE w.k = "ok" -> [conn |-> c1, ret |-> Returned("flush", "Ready")]
      [] w.k = "wouldblock" ->
            [conn |-> c1,
             ret |-> [Returned("flush", "NotReady") EXCEPT !.err = "WouldBlock"]]
      [] OTHER ->
            [conn |-> c1, ret |-> [Returned("flush", "Err") EXCEPT !.err = "Io"]]

----------------------------------------------------------------------------
(* server::Conn (src/src/server/conn.rs).                                  *)

\* server::Conn::read: what the wrapper makes of what http::Conn::read returned
server_read(r) ==
    CASE r.res = "Message" -> [res |-> "Message", body |-> FALSE]
      [] r.res = "NotReady" -> [res |-> "NotReady", body |-> FALSE]
      [] r.res = "Err" -> [res |-> "Err", body |-> FALSE]
      [] OTHER -> [res |-> "Panic", body |-> FALSE]

\* server::Conn::write
server_write(c, frame) ==
    IF frame.kind = "Message" THEN write(c, frame)
    ELSE [conn |-> c, ret |-> Returned("server_write", "Panic")]

----------------------------------------------------------------------------
(* History of the frames read.                                             *)
(*   errored     read has returned Frame::Error                            *)
(*   bodiless    the latest read returned a Message with has_body false    *)
(* and, while a decoder is installed (Reading::Body), of its message:      *)
(*   cl          the Content-Length of the head                            *)
(*   after_head  the first cl bytes that followed the head on the wire     *)
(*   body_acc    the body chunks read since the head, concatenated         *)
(*   eob         Body{None} frames read since the head: "none", "once",    *)
(*               "again" for more than one                                 *)

NoBodyHist == [cl |-> 0, after_head |-> <<>>, body_acc |-> <<>>, eob |-> "none"]

NoHist == [errored |-> FALSE, bodiless |-> FALSE,
           msg |-> NoBodyHist]

HistBody(h, r, t) ==
    IF r.conn.state.reading.tag # "Body" THEN NoBodyHist
    ELSE IF r.ret.res = "Message"
    THEN LET n == decoder(r.ret.head).dec.remaining IN
         [cl |-> n,
          after_head |-> Take(r.conn.io.read_buf, Min(n, Len(r.conn.io.read_buf))),
          body_acc |-> <<>>, eob |-> "none"]
    ELSE LET wire == h.msg.after_head \o t.bytes IN
         [cl |-> h.msg.cl,
          after_head |-> Take(wire, Min(h.msg.cl, Len(wire))),
          body_acc |-> IF r.ret.res = "BodySome" THEN h.msg.body_acc \o r.ret.chunk
                       ELSE h.msg.body_acc,
          eob |-> IF r.ret.res # "BodyNone" THEN h.msg.eob
                  ELSE IF h.msg.eob = "none" THEN "once" ELSE "again"]

HistRead(h, r, t) ==
    [errored |-> h.errored \/ r.ret.res = "Error",
     bodiless |-> (r.ret.res = "Message" /\ ~r.ret.body),
     msg |-> HistBody(h, r, t)]

\* A write leaves the history of the reads as it is, but for the decoder's,
\* which ends with the decoder.
HistWrite(h, r) ==
    IF r.conn.state.reading.tag # "Body" THEN [h EXCEPT !.msg = NoBodyHist] ELSE h

----------------------------------------------------------------------------
(* The state machine.                                                      *)

\* What a consumer has got from read(): the Message, Error and Done frames in
\* order, and the body bytes.
NoOut == [frames |-> <<>>, body |-> <<>>]

NoRun == [stream |-> <<>>, pieces |-> <<>>, done |-> FALSE,
          split |-> NoOut, whole |-> NoOut]

Init ==
    /\ layer \in {"http", "server"}
    /\ conn = new
    /\ peer = PeerStart
    /\ sent = <<>>
    /\ ret = NoCall
    /\ crashed = FALSE
    /\ hist = NoHist
    /\ run = NoRun

\* A call of http::Conn::read.
Read ==
    /\ ~crashed
    /\ layer \in {"http", "pipeline"}
    /\ \E t \in TransportRead(peer, ReadWant(conn)) :
          LET r == read(conn, t)
          IN  /\ conn' = r.conn
              /\ ret' = [r.ret EXCEPT !.was = conn.state.reading.tag]
              /\ peer' = t.peer
              /\ crashed' = (r.ret.res = "Panic")
              /\ hist' = HistRead(hist, r, t)
    /\ UNCHANGED <<layer, run, sent>>

\* A call of server::Conn::read.
ServerRead ==
    /\ ~crashed
    /\ layer = "server"
    /\ \E t \in TransportRead(peer, ReadWant(conn)) :
          LET r == read(conn, t)
          IN  /\ conn' = r.conn
              /\ ret' = [Returned("server_read", server_read(r.ret).res) EXCEPT
                            !.body = server_read(r.ret).body,
                            !.head = r.ret.head, !.err = r.ret.err,
                            !.was = conn.state.reading.tag,
                            !.inner = r.ret.res]
              /\ peer' = t.peer
              /\ crashed' = (server_read(r.ret).res = "Panic")
              /\ hist' = HistRead(hist, r, t)
    /\ UNCHANGED <<layer, run, sent>>

\* A call of http::Conn::write.
Write ==
    /\ ~crashed
    /\ layer = "http"
    /\ \E frame \in Frames :
          LET r == write(conn, frame) IN
          /\ Len(r.conn.io.write_buf) + Len(sent) <= MaxOut
          /\ conn' = r.conn
          /\ ret' = [r.ret EXCEPT !.was = conn.state.writing.tag]
          /\ hist' = HistWrite(hist, r)
    /\ UNCHANGED <<layer, run, peer, sent, crashed>>

\* A call of server::Conn::write.
ServerWrite ==
    /\ ~crashed
    /\ layer = "server"
    /\ \E frame \in Frames :
          LET r == server_write(conn, frame) IN
          /\ Len(r.conn.io.write_buf) + Len(sent) <= MaxOut
          /\ conn' = r.conn
          /\ ret' = [r.ret EXCEPT !.was = conn.state.writing.tag]
          /\ crashed' = (r.ret.res = "Panic")
          /\ hist' = HistWrite(hist, r)
    /\ UNCHANGED <<layer, run, peer, sent>>

\* A call of flush (server::Conn::flush is http::Conn::flush).
Flush ==
    /\ ~crashed
    /\ \E w \in TransportWrite(Len(conn.io.write_buf)) :
          LET r == flush(conn, w) IN
          /\ conn' = r.conn
          /\ ret' = r.ret
          /\ sent' = sent \o Take(conn.io.write_buf, w.n)
    /\ UNCHANGED <<layer, run, peer, crashed, hist>>

\* A call of poll_read.
PollRead ==
    /\ ~crashed
    /\ \E ready \in BOOLEAN :
          ret' = Returned("poll_read", poll_read(conn, ready))
    /\ UNCHANGED <<layer, run, conn, peer, sent, crashed, hist>>

\* A call of poll_write.
PollWrite ==
    /\ ~crashed
    /\ \E ready \in BOOLEAN :
          ret' = Returned("poll_write", poll_write(conn, ready))
    /\ UNCHANGED <<layer, run, conn, peer, sent, crashed, hist>>

\* The client hangs up on an open connection: the transport reports the end
\* of the stream from now on.  (A closed connection reads the transport no
\* more.)
PeerClose ==
    /\ ~crashed
    /\ peer.at # "eof"
    /\ ~is_closed(conn.state)
    /\ peer' = PeerEof
    /\ ret' = NoCall
    /\ UNCHANGED <<layer, run, conn, sent, crashed, hist>>

\* A call of http::Conn::write under keep-alive traffic.
WritePipe ==
    /\ ~crashed
    /\ layer = "pipeline"
    /\ \E frame \in PipeFrames :
          LET r == write(conn, frame) IN
          /\ Len(r.conn.io.write_buf) + Len(sent) <= MaxOut
          /\ conn' = r.conn
          /\ ret' = [r.ret EXCEPT !.was = conn.state.writing.tag]
          /\ hist' = HistWrite(hist, r)
    /\ UNCHANGED <<layer, run, peer, sent, crashed>>

Next ==
    \/ Read
    \/ ServerRead
    \/ Write
    \/ ServerWrite
    \/ Flush
    \/ PollRead
    \/ PollWrite
    \/ PeerClose

Spec == Init /\ [][Next]_vars

\* Keep-alive traffic: pipelined requests without bodies, answered with
\* either of two response heads.
InitPipe ==
    /\ layer = "pipeline"
    /\ conn = new
    /\ peer = PeerPipeStart
    /\ sent = <<>>
    /\ ret = NoCall
    /\ crashed = FALSE
    /\ hist = NoHist
    /\ run = NoRun

NextPipe ==
    \/ Read
    \/ WritePipe
    \/ Flush
    \/ PeerClose

SpecPipe == InitPipe /\ [][NextPipe]_vars

\* One byte stream in pieces.  The byte streams a client may send, and the
\* ways of cutting one into non-empty pieces.
Streams ==
    {c.bytes : c \in Chunks(PeerStart, MaxStream) \cup Chunks(PeerPipeStart, MaxStream)}

RECURSIVE Splits(_)
Splits(s) ==
    IF s = <<>> THEN {<<>>}
    ELSE UNION { {<<Take(s, k)>> \o r : r \in Splits(Drop(s, k))} : k \in 1..Len(s) }

\* What the transport gives a read of at most n bytes when the bytes avail
\* have arrived and the connection stays open.
Arrived(avail, n) ==
    IF n = 0 THEN [k |-> "none", bytes |-> <<>>, peer |-> PeerStart]
    ELSE IF avail = <<>> THEN [k |-> "wouldblock", bytes |-> <<>>, peer |-> PeerStart]
    ELSE [k |-> "data", bytes |-> Take(avail, Min(n, Len(avail))), peer |-> PeerStart]

\* The head of the response the consumer writes when a request has been read
\* to its end.
Answer ==
    [kind |-> "Message", head |-> [version |-> "Http11", headers |-> <<"CL0">>],
     body |-> FALSE, chunk |-> <<>>]

\* The consumer's loop over read(): it reads until read() returns NotReady
\* with nothing left in the transport, then lets the next piece arrive; it
\* answers each request read to its end; it stops at Frame::Error, at
\* Frame::Done, at Err and at a panic.  c is the connection, avail the bytes
\* arrived and not yet read, pieces those still to arrive, out what read()
\* has produced, fuel the number of calls left.
RECURSIVE Drive(_, _, _, _, _)
Drive(c, avail, pieces, out, fuel) ==
    IF fuel = 0 THEN [conn |-> c, out |-> out]
    ELSE
    LET t == Arrived(avail, ReadWant(c))
        r == read(c, t)
        left == Drop(avail, Len(t.bytes))
    IN  CASE r.ret.res = "NotReady" ->
                IF left # <<>> THEN Drive(r.conn, left, pieces, out, fuel - 1)
                ELSE IF pieces # <<>>
                THEN Drive(r.conn, Head(pieces), Tail(pieces), out, fuel - 1)
                ELSE [conn |-> r.conn, out |-> out]
          [] r.ret.res = "Message" ->
                LET o == [out EXCEPT !.frames = Append(@,
                              [kind |-> "Message", head |-> r.ret.head,
                               body |-> r.ret.body])]
                IN  IF r.ret.body
                    THEN Drive(r.conn, left, pieces, o, fuel - 1)
                    ELSE Drive(write(r.conn, Answer).conn, left, pieces, o, fuel - 1)
          [] r.ret.res = "BodySome" ->
                Drive(r.conn, left, pieces,
                      [out EXCEPT !.body = @ \o r.ret.chunk], fuel - 1)
          [] r.ret.res = "BodyNone" ->
                Drive(write(r.conn, Answer).conn, left, pieces, out, fuel - 1)
          [] r.ret.res \in {"Error", "Done"} ->
                [conn |-> r.conn,
                 out |-> [out EXCEPT !.frames = Append(@,
                              [kind |-> r.ret.res, head |-> NoHead, body |-> FALSE])]]
          [] OTHER -> [conn |-> r.conn, out |-> out]

\* What read() produces of a stream that arrives in the given pieces.
Emitted(pieces) ==
    IF pieces = <<>> THEN [conn |-> new, out |-> NoOut]
    ELSE Drive(new, Head(pieces), Tail(pieces), NoOut, 3 * MaxStream + 3)

InitSplit ==
    /\ layer = "split"
    /\ conn = new
    /\ peer = PeerStart
    /\ sent = <<>>
    /\ ret = NoCall
    /\ crashed = FALSE
    /\ hist = NoHist
    /\ run \in UNION { {[NoRun EXCEPT !.stream = s, !.pieces = p] :
                            p \in Splits(s)} : s \in Streams }

\* The stream is delivered twice to a new connection: in its pieces, and in
\* one piece.
Deliver ==
    /\ layer = "split"
    /\ ~run.done
    /\ LET split == Emitted(run.pieces)
           whole == Emitted(<<run.stream>>)
       IN  /\ run' = [run EXCEPT !.done = TRUE, !.split = split.out,
                                 !.whole = whole.out]
           /\ conn' = split.conn
    /\ UNCHANGED <<layer, peer, sent, ret, crashed, hist>>

NextSplit == Deliver

SpecSplit == InitSplit /\ [][NextSplit]_vars

----------------------------------------------------------------------------
(* The claims.                                                             *)

\* The results a read can give in the current state.
ReadResults == {read(conn, t).ret.res : t \in TransportRead(peer, ReadWant(conn))}

\* C1: once the state is (Closed, Closed) every call leaves it so; a read made
\* there returns Ready(Frame::Done); a write made there returns Err, whatever
\* the frame, and appends nothing to the write buffer.
C1_ClosedIsTerminal ==
    [][is_closed(conn.state) =>
          /\ is_closed(conn'.state)
          /\ ret'.op = "read" => ret'.res = "Done"
          /\ ret'.op = "write" =>
                /\ ret'.res = "Err"
                /\ conn'.io.write_buf = conn.io.write_buf]_vars

\* A head has been written to a closed connection and refused.
C1_Witness ==
    /\ is_closed(conn.state)
    /\ ret.op = "write"
    /\ ret.was = "Closed"
    /\ ret.frame = "Message"
    /\ ret.res = "Err"

\* C2: a read in Reading::Init whose parse fails closes both sides, and
\* returns Frame::Error when bytes remain in the read buffer after the leading
\* empty lines are skipped, Frame::Done when none remain.
C2_ParseErrorCloses ==
    \A t \in TransportRead(peer, ReadWant(conn)) :
        LET p == io_parse(conn.io.read_buf, t)
            r == read(conn, t)
        IN  (conn.state.reading.tag = "Init" /\ p.k = "err") =>
               /\ is_closed(r.conn.state)
               /\ r.ret.res = IF consume_leading_lines(p.buf) # <<>>
                              THEN "Error" ELSE "Done"

\* A read in Reading::Init met the end of the stream with nothing but empty
\* lines buffered, and returned Frame::Done.
C2_Witness ==
    /\ ret.op = "read"
    /\ ret.was = "Init"
    /\ ret.err = "Eof"
    /\ ret.res = "Done"
    /\ is_closed(conn.state)

\* C3: a read that returns Frame::Error leaves the state (Closed, Closed), and
\* from then on every read returns Frame::Done: never a Message or a Body.
C3_ErrorThenDone ==
    /\ (ret.op = "read" /\ ret.res = "Error") => is_closed(conn.state)
    /\ hist.errored =>
          /\ is_closed(conn.state)
          /\ ReadResults = {"Done"}
          /\ ret.op = "read" => ret.res \in {"Error", "Done"}

\* A read after the one that returned Frame::Error has returned Frame::Done.
C3_Witness ==
    /\ hist.errored
    /\ ret.op = "read"
    /\ ret.was = "Closed"
    /\ ret.res = "Done"

\* C4: when the decoder fails in Reading::Body, the read returns
\* Ready(Frame::Error), Reading becomes Closed and the next read returns
\* Frame::Done.
C4_DecoderErrorCloses ==
    (ret.op = "read" /\ ret.was = "Body" /\ ret.err \notin {"none", "WouldBlock"}) =>
        /\ ret.res = "Error"
        /\ conn.state.reading.tag = "Closed"
        /\ ReadResults = {"Done"}

\* C5: a read that parses a head of HTTP/1.0 or 1.1 whose framing is
\* accepted returns Frame::Message; the has_body of a Message is true exactly
\* when a decoder is installed (Reading::Body), when false Reading is KeepAlive,
\* and a head with no framing header has has_body false.
C5_HasBodyIffDecoder ==
    /\ \A t \in TransportRead(peer, ReadWant(conn)) :
          LET p == io_parse(conn.io.read_buf, t) IN
          (/\ conn.state.reading.tag = "Init"
           /\ p.k = "some"
           /\ p.head.version \in {"Http10", "Http11"}
           /\ decoder(p.head).ok) => read(conn, t).ret.res = "Message"
    /\ (ret.op = "read" /\ ret.res = "Message") =>
          /\ ret.body <=> conn.state.reading.tag = "Body"
          /\ ~ret.body => conn.state.reading.tag = "KeepAlive"
          /\ ret.head.headers = <<>> => ~ret.body

\* A read has returned a Message with has_body true and installed a decoder.
C5_Witness ==
    /\ ret.op = "read"
    /\ ret.res = "Message"
    /\ ret.body
    /\ conn.state.reading.tag = "Body"
    /\ conn.state.reading.decoder.remaining > 0

\* C6: after a Message with has_body false, once the transport is at its end
\* and no byte is left to read, the next read returns Ready(Frame::Done)
\* rather than panicking, whether or not a response was written in between.
C6_DoneAfterBodilessMessage ==
    [][(/\ hist.bodiless
        /\ peer.at = "eof"
        /\ conn.io.read_buf = <<>>
        /\ ret'.op = "read") => ret'.res = "Done"]_vars

\* C7: of a request with Content-Length n > 0 the consumer receives a Message
\* with has_body true, then Body{Some} chunks that together are the first n
\* bytes after the head, in order, then Body{None}; what follows those n bytes
\* is never delivered as body.
C7_ContentLengthBody ==
    /\ (ret.op \in {"read", "server_read"} /\ ret.res = "Message"
            /\ ContentLengths(ret.head) # {}) => ret.body
    /\ (ret.op = "server_read" /\ ret.inner \in {"BodySome", "BodyNone"}) =>
          ret.res = ret.inner
    /\ IsPrefix(hist.msg.body_acc, hist.msg.after_head)
    /\ hist.msg.eob # "none" => hist.msg.body_acc = hist.msg.after_head
                                 /\ Len(hist.msg.body_acc) = hist.msg.cl

\* C8: of one body Body{None} is returned exactly once: a further read does
\* not return it again.
C8_EndOfBodyOnce ==
    hist.msg.eob # "again"

\* C9: from Writing::Init, write(Message) with Content-Length n > 0, then
\* write(Body{Some}) of n bytes, then write(Body{None}) all return Ready;
\* Writing is Body in between, and the write buffer gains the head and the
\* n bytes.
C9_WriteHeadThenBody ==
    [][/\ (ret'.op = "write" /\ ret'.was = "Init" /\ ret'.frame = "Message"
              /\ ret'.cl > 0) =>
             /\ ret'.res = "Ready"
             /\ conn'.state.writing.tag = "Body"
       /\ (ret.op = "write" /\ ret.frame = "Message" /\ ret.res = "Ready"
              /\ ret'.op = "write" /\ ret'.frame = "BodySome") =>
             /\ ret'.res = "Ready"
             /\ conn'.state.writing.tag = "Body"
             /\ conn'.io.write_buf = conn.io.write_buf \o <<"a">>
       /\ (ret.op = "write" /\ ret.frame = "BodySome" /\ ret.res = "Ready"
              /\ ret'.op = "write" /\ ret'.frame = "BodyNone") =>
             ret'.res = "Ready"]_vars

\* C10: in every state the connection can be in, a write that returns
\* Err(InvalidInput) leaves the state (Closed, Closed) and has appended
\* nothing to the write buffer.
C10_InvalidInputCloses ==
    \A frame \in Frames :
        LET r == write(conn, frame) IN
        (r.ret.res = "Err" /\ r.ret.err = "InvalidInput") =>
            /\ is_closed(r.conn.state)
            /\ r.conn.io.write_buf = conn.io.write_buf

\* A body chunk written in Writing::Init has been refused and the connection
\* closed.
C10_Witness ==
    /\ ret.op = "write"
    /\ ret.was = "Init"
    /\ ret.frame = "BodySome"
    /\ ret.err = "InvalidInput"
    /\ is_closed(conn.state)
    /\ conn.io.write_buf = <<>>

\* C11: write(Frame::Done) and write(Frame::Error) made while Writing is Init
\* or Body return Ready, append nothing to the write buffer and leave the
\* state (Closed, Closed).
C11_DoneClosesCleanly ==
    \A frame \in {f \in Frames : f.kind \in {"Done", "Error"}} :
        \A c \in {conn, [conn EXCEPT !.state.writing = WritingBody]} :
            c.state.writing.tag \in {"Init", "Body"} =>
                LET r == write(c, frame) IN
                /\ r.ret.res = "Ready"
                /\ r.conn.io.write_buf = c.io.write_buf
                /\ is_closed(r.conn.state)

\* Frame::Done has been written in Writing::Init and has closed the connection.
C11_Witness ==
    /\ ret.op = "write"
    /\ ret.was = "Init"
    /\ ret.frame = "Done"
    /\ ret.res = "Ready"
    /\ is_closed(conn.state)

\* C12: a WouldBlock of the transport never comes to the caller as Err: a
\* flush that meets it returns NotReady, and so does a read that meets it
\* while it reads a head or a body chunk.
C12_WouldBlockIsNotReady ==
    /\ \A w \in TransportWrite(Len(conn.io.write_buf)) :
          w.k = "wouldblock" => flush(conn, w).ret.res = "NotReady"
    /\ \A t \in TransportRead(peer, ReadWant(conn)) :
          (t.k = "wouldblock" /\ conn.state.reading.tag = "Init"
              /\ h1_parse(conn.io.read_buf).k = "none") =>
             read(conn, t).ret.res = "NotReady"
    /\ (ret.op \in {"read", "flush"} /\ ret.err = "WouldBlock") =>
          ret.res = "NotReady"

\* C13: a read or a flush that returns Err for an I/O error of the transport
\* other than WouldBlock leaves the state (Closed, Closed).
C13_IoErrorCloses ==
    (ret.op \in {"read", "flush"} /\ ret.res = "Err" /\ ret.err = "Io") =>
        is_closed(conn.state)

\* The read buffer holds a complete head.
HeadBuffered == h1_parse(conn.io.read_buf).k = "some"

\* C14: poll_read returns Ready whenever read can go on without blocking:
\* when Reading is Closed, and when Reading is Init and a complete head is
\* already in the read buffer, even though the transport is not ready.
C14_PollReadSeesBuffer ==
    (ret.op = "poll_read"
        /\ \/ conn.state.reading.tag = "Closed"
           \/ conn.state.reading.tag = "Init" /\ HeadBuffered) =>
        ret.res = "Ready"

\* C15: poll_write returns NotReady whenever the transport's poll_write is
\* NotReady.
C15_PollWriteAsksTransport ==
    \A ready \in BOOLEAN :
        ~ready => poll_write(conn, ready) = "NotReady"

\* The read buffer holds a complete head that read_head takes for a message.
RequestBuffered ==
    LET p == h1_parse(conn.io.read_buf) IN
    /\ p.k = "some"
    /\ p.head.version \in {"Http10", "Http11"}
    /\ decoder(p.head).ok

\* The last call was the read that ended a request: a Message with has_body
\* false, or the Body{None} of a body.
RequestRead ==
    /\ ret.op = "read"
    /\ \/ ret.res = "Message" /\ ~ret.body
       \/ ret.res = "BodyNone"

\* A read that finds the transport not ready.
NotReadyNow == [k |-> "wouldblock", bytes |-> <<>>, peer |-> peer]

\* The fixed response of specification section 8, scenario 4: the head with
\* Content-Length: 1, the body byte, the end of the body.
FixedResponse(c) ==
    LET h == CHOOSE f \in Frames : f.kind = "Message" /\ f.body
        b == CHOOSE f \in Frames : f.kind = "BodySome"
        e == CHOOSE f \in Frames : f.kind = "BodyNone"
        r1 == write(c, h)
        r2 == write(r1.conn, b)
        r3 == write(r2.conn, e)
    IN  [ok |-> r1.ret.res = "Ready" /\ r2.ret.res = "Ready" /\ r3.ret.res = "Ready",
         conn |-> r3.conn,
         bytes |-> encode(h.head) \o b.chunk]

\* C17: after a whole exchange on a persistent connection (the request read
\* to its end, the head and the body of the response written) the state is
\* (Init, Init); the second request is then parsed out of the same read
\* buffer, and the bytes of its response follow those of the first in the
\* write buffer.
C17_KeepAliveExchange ==
    (RequestRead /\ RequestBuffered
        /\ (ret.res = "Message" => ret.head.version = "Http11")) =>
        LET first == FixedResponse(conn)
            next == read(first.conn, NotReadyNow)
            second == FixedResponse(next.conn)
        IN  /\ first.ok
            /\ first.conn.state = [reading |-> ReadingInit, writing |-> WritingInit]
            /\ next.ret.res = "Message"
            /\ second.ok
            /\ second.conn.io.write_buf =
                  conn.io.write_buf \o first.bytes \o second.bytes

\* C18: with the head of a second request in the read buffer, the read after
\* the one that ended the first request returns the Message of the second:
\* no write is needed in between.
C18_NextHeadBeforeResponse ==
    (RequestRead /\ RequestBuffered) => ReadResults = {"Message"}

\* C16: when the request just read is an HTTP/1.1 request with Connection:
\* close, the write that completes its response (the head of a response
\* without a body) leaves the connection closed, not in (Init, Init).
C16_ConnectionCloseCloses ==
    (/\ layer = "pipeline"
     /\ ret.op = "read" /\ ret.res = "Message"
     /\ ret.head.version = "Http11"
     /\ \E i \in 1..Len(ret.head.headers) : ret.head.headers[i] = "CC") =>
        \A f \in {g \in PipeFrames : g.kind = "Message" /\ ~g.body} :
            is_closed(write(conn, f).conn.state)

C20_SplitInvariance ==
    run.done => run.split = run.whole

\* C21: the two directions are independent: a response head written while the
\* request body is only partly read leaves the Reading half and its decoder
\* as they were.
C21_EarlyResponseKeepsReading ==
    (conn.state.reading.tag = "Body" /\ conn.state.writing.tag = "Init") =>
        \A f \in {g \in Frames : g.kind = "Message"} :
            write(conn, f).conn.state.reading = conn.state.reading

\* C22: read() never returns Body{Some} with no bytes: every chunk it returns
\* has between 1 and 4096 bytes, and a decode of no bytes is reported as
\* Body{None}.
C22_NoEmptyChunk ==
    /\ (ret.op = "read" /\ ret.res = "BodySome") =>
            (Len(ret.chunk) >= 1 /\ Len(ret.chunk) <= ChunkCap)
    /\ (ret.op = "read" /\ ret.res = "BodyNone") => ret.chunk = <<>>
    /\ conn.state.reading.tag = "Body" =>
            \A t \in TransportRead(peer, ReadWant(conn)) :
                LET d == decode(conn.state.reading.decoder, conn.io.read_buf,
                                ChunkCap, t)
                IN  (d.err = "none" /\ d.n = 0) =>
                        read(conn, t).ret.res = "BodyNone"

\* A chunk of the body has been read, and the read after the last byte of the
\* body has decoded nothing.
C22_Witness ==
    /\ ret.op = "read" /\ ret.res = "BodyNone"
    /\ hist.msg.body_acc # <<>>

\* C23: closing is atomic across the two halves: Reading is Closed exactly
\* when Writing is Closed.
C23_ClosedTogether ==
    (conn.state.reading.tag = "Closed") <=> (conn.state.writing.tag = "Closed")

\* A read has closed the connection on a parse error.
C23_Witness ==
    /\ ret.op = "read" /\ ret.res = "Error" /\ ret.was = "Init"
    /\ conn.state.reading.tag = "Closed"
    /\ conn.state.writing.tag = "Closed"

\* C24: a call that returns NotReady leaves Reading and Writing as they were
\* (a read that has only the beginning of a head, a flush that would block),
\* and so does every poll_read and poll_write.
C24_NotReadyKeepsState ==
    [][(ret'.res = "NotReady" \/ ret'.op \in {"poll_read", "poll_write"}) =>
          conn'.state = conn.state]_vars

\* A read has returned NotReady with the beginning of a head in the buffer.
C24_Witness ==
    /\ ret.op = "read" /\ ret.res = "NotReady"
    /\ conn.io.read_buf # <<>>
    /\ conn.state.reading.tag = "Init"

C26_ReadBodyHasDecoder ==
    /\ (~is_closed(conn.state) /\ ~can_read_head(conn)) =>
            conn.state.reading.tag = "Body"
    /\ ret.op = "read" => ret.res # "Panic"

====
